---- MODULE Spec2Model ----
(***************************************************************************)
(* steam-library.py: the rate-limited, caching HTTP helper request(), the  *)
(* four per-game field extractors, get_owned_games() and main().           *)
(*                                                                         *)
(* The program is single-threaded.  A call of request() is modelled as a   *)
(* frame (url, ignore_error, wait_seconds, attempts) and one step per      *)
(* cache check, sleep and GET; the recursive retry is a tail call, so the  *)
(* frame is overwritten in place.  The remote API is the environment: each *)
(* GET is answered nondeterministically.                                   *)
(***************************************************************************)
EXTENDS Integers, Sequences, FiniteSets, TLC

\* ------------------------------------------------------------------ constants
MIN_WAIT_SECONDS == 1
MAX_WAIT_SECONDS == 60
MAX_ATTEMPTS == 10

\* ------------------------------------------------------------------ bounds
\* longest owned-games list the API serves
MaxGames == 2
\* longest achievement list the API serves
MaxAch == 4

VARIABLES
  server,          \* environment: which bodies the API serves (see Served)
  response_cache,  \* dict url -> response (a function on the cached urls)
  url, ignore_error, wait_seconds, attempts,   \* the current request() frame
  rpc,             \* position in request(): idle, entry, get, ret
  ret,             \* how the top-level request() call ended
  answers,         \* history: the answers of the GETs of this top-level call
  slept,           \* history: the durations slept by this top-level call
  printed,         \* history: the diagnostics printed by this top-level call
  prior,           \* history: the first successful response for url, as known
                   \*          when this top-level call was made
  firstOk,         \* history: url -> first response returned successfully
  cacheAtCall,     \* history: response_cache when this top-level call was made
  xfn, xappid, xpc, xret,   \* the current extractor call and its result
  STEAM_ID,        \* the environment variable
  pc,              \* position in main()
  owned_games, gi, \* the list main() iterates and the index of the game
  locals,          \* main()'s per-game local variables
  csvfile,         \* the output file of this run
  logged,          \* indexes of the games whose exception main() printed
  escaped          \* the exception that left main(), "" if none

reqvars == <<response_cache, url, ignore_error, wait_seconds, attempts, rpc,
             ret, answers, slept, printed, prior, firstOk, cacheAtCall>>
xvars == <<xfn, xappid, xpc, xret>>
mainvars == <<STEAM_ID, pc, owned_games, gi, locals, csvfile, logged, escaped>>
vars == <<server, reqvars, xvars, mainvars>>

\* ------------------------------------------------------------------ urls
AppIds == 1..MaxGames

OwnedUrl == [ep |-> "GetOwnedGames", appid |-> 0]
AchievementsUrl(a) == [ep |-> "GetPlayerAchievements", appid |-> a]
ReviewsUrl(a) == [ep |-> "appreviews", appid |-> a]
AppDetailsUrl(a) == [ep |-> "appdetails", appid |-> a]

Urls == {OwnedUrl} \cup {AchievementsUrl(a) : a \in AppIds}
          \cup {ReviewsUrl(a) : a \in AppIds} \cup {AppDetailsUrl(a) : a \in AppIds}

\* ------------------------------------------------------------------ JSON bodies
NoBody == [kind |-> "none"]

\* rtime_last_played is held in whole days since the epoch (the integers of
\* the model are 32-bit); LastDay is 9999-12-31, the last day datetime can
\* represent
LastDay == 2932896

\* one record of response.games; has_name FALSE is a record without 'name'
GameRecord(a, has_name, rtime) ==
  [appid |-> a, has_name |-> has_name, name |-> IF has_name THEN <<"Game", a>> ELSE <<>>,
   playtime_forever |-> 120, rtime_last_played |-> rtime]

\* the records served for game a: a complete one played the day after the
\* epoch, one without 'name', and one played the day after LastDay
GameShapes(a) == {GameRecord(a, TRUE, 1), GameRecord(a, FALSE, 1),
                  GameRecord(a, TRUE, LastDay + 1)}

\* the owned-games lists: game k of a list has appid k
Libraries ==
  UNION {{[k \in 1..n |-> f[k]] : f \in {g \in [1..n -> UNION {GameShapes(a) : a \in AppIds}] :
                                          \A k \in 1..n : g[k].appid = k}} : n \in 0..MaxGames}

OwnedBody(has_games, games) == [kind |-> "owned", has_games |-> has_games, games |-> games]
OwnedBodies == {OwnedBody(FALSE, <<>>)} \cup {OwnedBody(TRUE, g) : g \in Libraries}

ReviewsBody(has, desc) == [kind |-> "reviews", has_query_summary |-> has, review_score_desc |-> desc]
ReviewsBodies == {ReviewsBody(TRUE, "Very Positive"), ReviewsBody(FALSE, "")}

\* data[str(appid)]: has_appid, then its 'data' with optional 'metacritic' and
\* 'release_date'
AppDetailsBody(has_appid, has_data, has_mc, has_rd, date) ==
  [kind |-> "appdetails", has_appid |-> has_appid, has_data |-> has_data,
   has_metacritic |-> has_mc, score |-> IF has_mc THEN "85" ELSE "",
   has_release_date |-> has_rd, date |-> date]
AppDetailsBodies ==
  {AppDetailsBody(FALSE, FALSE, FALSE, FALSE, ""),
   AppDetailsBody(TRUE, FALSE, FALSE, FALSE, ""),
   AppDetailsBody(TRUE, TRUE, FALSE, FALSE, ""),
   AppDetailsBody(TRUE, TRUE, TRUE, TRUE, "21 Mar, 2020"),
   AppDetailsBody(TRUE, TRUE, TRUE, TRUE, "Coming soon")}

AchievementsBody(has_ps, has_ach, achievements) ==
  [kind |-> "achievements", has_playerstats |-> has_ps, has_achievements |-> has_ach,
   achievements |-> achievements]
AchievementLists == UNION {[1..n -> {0, 1}] : n \in 0..MaxAch}
AchievementsBodies ==
  {AchievementsBody(FALSE, FALSE, <<>>), AchievementsBody(TRUE, FALSE, <<>>)}
    \cup {AchievementsBody(TRUE, TRUE, l) : l \in AchievementLists}

BodiesOf(u) ==
  CASE u.ep = "GetOwnedGames" -> OwnedBodies
    [] u.ep = "GetPlayerAchievements" -> AchievementsBodies
    [] u.ep = "appreviews" -> ReviewsBodies
    [] u.ep = "appdetails" -> AppDetailsBodies

\* ------------------------------------------------------------------ HTTP
\* requests.get(u): either no response at all (a network error raised by get)
\* or a response with a status code and, on 200, a body
Response(u, status, body) ==
  [url |-> u, has_response |-> TRUE, status_code |-> status, body |-> body]
NetworkError(u) ==
  [url |-> u, has_response |-> FALSE, status_code |-> 0, body |-> NoBody]

ErrorStatuses == {429, 500}

\* the bodies the API may serve for u: two per url ("sample"), every body
\* ("full"), or every owned-games list and one or two bodies for each of a
\* game's urls ("library")
Served(u) ==
  CASE server = "full" -> BodiesOf(u)
    [] server = "sample" ->
         (CASE u.ep = "GetOwnedGames" -> {OwnedBody(FALSE, <<>>), OwnedBody(TRUE, <<>>)}
            [] u.ep = "GetPlayerAchievements" ->
                 {AchievementsBody(TRUE, FALSE, <<>>), AchievementsBody(TRUE, TRUE, <<>>)}
            [] u.ep = "appreviews" -> ReviewsBodies
            [] u.ep = "appdetails" ->
                 {AppDetailsBody(FALSE, FALSE, FALSE, FALSE, ""),
                  AppDetailsBody(TRUE, TRUE, TRUE, TRUE, "21 Mar, 2020")})
    [] server = "library" ->
         (CASE u.ep = "GetOwnedGames" -> OwnedBodies
            [] u.ep = "GetPlayerAchievements" -> {AchievementsBody(TRUE, TRUE, <<>>)}
            [] u.ep = "appreviews" -> {ReviewsBody(TRUE, "Very Positive")}
            [] u.ep = "appdetails" ->
                 {AppDetailsBody(TRUE, FALSE, FALSE, FALSE, ""),
                  AppDetailsBody(TRUE, TRUE, TRUE, TRUE, "21 Mar, 2020")})

Answers(u) ==
  {Response(u, 200, b) : b \in Served(u)}
    \cup {Response(u, s, NoBody) : s \in ErrorStatuses} \cup {NetworkError(u)}

\* response.raise_for_status(): raises HTTPError on 4xx and 5xx
\* (variant: the status is never checked)
RaisesForStatusNever(r) == FALSE
RaisesForStatus(r) == r.status_code \in 400..599

\* line 32 raised, or requests.get itself did
GetRaises(r) == ~r.has_response \/ RaisesForStatus(r)

\* line 36: e.response is not None and e.response.status_code == 429
\* (variant: every error response is taken for a rate limit)
IsRateLimitedAnyStatus(r) == r.has_response
IsRateLimited(r) == r.has_response /\ r.status_code = 429

\* line 24: url in response_cache
\* (variant: the cache is never consulted)
InCacheNever(u) == FALSE
InCache(u) == u \in DOMAIN response_cache

\* line 33: response_cache[url] = response
CacheStore(cache, u, r) ==
  [v \in DOMAIN cache \cup {u} |-> IF v = u THEN r ELSE cache[v]]

\* line 38: attempts + 1 > MAX_ATTEMPTS
\* (variant: one more retry is allowed)
ExhaustedLate(n) == n > MAX_ATTEMPTS
Exhausted(n) == n + 1 > MAX_ATTEMPTS

Min(a, b) == IF a <= b THEN a ELSE b

\* line 41
\* (variant: the wait is doubled without the cap)
NextWaitUncapped(w) == IF w > 0 THEN w * 2 ELSE MIN_WAIT_SECONDS
NextWait(w) == IF w > 0 THEN Min(w * 2, MAX_WAIT_SECONDS) ELSE MIN_WAIT_SECONDS

\* how a top-level request() call ends: a response returned, None returned
\* (line 40), or the exception e re-raised (line 47)
NoRet == [kind |-> "pending", response |-> NetworkError(OwnedUrl)]
Returned(r) == [kind |-> "response", response |-> r]
ReturnedNone == [kind |-> "None", response |-> NetworkError(OwnedUrl)]
Raised(r) == [kind |-> "raise", response |-> r]

NoPrior == [known |-> FALSE, response |-> NetworkError(OwnedUrl)]

\* a caller's request(u, ie): wait_seconds and attempts take their defaults
CallRequest(u, ie) ==
  /\ url' = u
  /\ ignore_error' = ie
  /\ wait_seconds' = 0
  /\ attempts' = 0
  /\ rpc' = "entry"
  /\ ret' = NoRet
  /\ answers' = <<>>
  /\ slept' = <<>>
  /\ printed' = <<>>
  /\ prior' = IF u \in DOMAIN firstOk
              THEN [known |-> TRUE, response |-> firstOk[u]] ELSE NoPrior
  /\ cacheAtCall' = response_cache
  /\ UNCHANGED <<response_cache, firstOk>>

NoteFirst(r) ==
  firstOk' = IF url \in DOMAIN firstOk THEN firstOk ELSE CacheStore(firstOk, url, r)

\* lines 24-25, cache hit
ReqCacheHit ==
  /\ rpc = "entry"
  /\ InCache(url)
  /\ ret' = Returned(response_cache[url])
  /\ rpc' = "ret"
  /\ NoteFirst(response_cache[url])
  /\ UNCHANGED <<response_cache, url, ignore_error, wait_seconds, attempts,
                 answers, slept, printed, prior, cacheAtCall>>
  /\ UNCHANGED <<server, xvars, mainvars>>

\* lines 24, 28-30, cache miss: sleep when wait_seconds > 0
ReqCacheMiss ==
  /\ rpc = "entry"
  /\ ~InCache(url)
  /\ IF wait_seconds > 0
     THEN /\ printed' = Append(printed, "waiting")
          /\ slept' = Append(slept, wait_seconds)
     ELSE UNCHANGED <<printed, slept>>
  /\ rpc' = "get"
  /\ UNCHANGED <<response_cache, url, ignore_error, wait_seconds, attempts,
                 ret, answers, prior, firstOk, cacheAtCall>>
  /\ UNCHANGED <<server, xvars, mainvars>>

\* lines 31-34: the GET succeeds
ReqGetSuccess ==
  /\ rpc = "get"
  /\ \E r \in Answers(url) :
       /\ ~GetRaises(r)
       /\ answers' = Append(answers, r)
       /\ response_cache' = CacheStore(response_cache, url, r)
       /\ ret' = Returned(r)
       /\ NoteFirst(r)
  /\ rpc' = "ret"
  /\ UNCHANGED <<url, ignore_error, wait_seconds, attempts, slept, printed, prior,
                 cacheAtCall>>
  /\ UNCHANGED <<server, xvars, mainvars>>

\* lines 35-43: the GET answers 429
ReqGetRateLimited ==
  /\ rpc = "get"
  /\ \E r \in Answers(url) :
       /\ GetRaises(r)
       /\ IsRateLimited(r)
       /\ answers' = Append(answers, r)
  /\ IF Exhausted(attempts)
     THEN /\ printed' = Append(printed, "max attempts")
          /\ ret' = ReturnedNone
          /\ rpc' = "ret"
          /\ UNCHANGED <<wait_seconds, attempts>>
     ELSE /\ printed' = Append(printed, "got 429")
          /\ wait_seconds' = NextWait(wait_seconds)
          /\ attempts' = attempts + 1
          /\ rpc' = "entry"
          /\ UNCHANGED ret
  /\ UNCHANGED <<response_cache, url, ignore_error, slept, prior, firstOk, cacheAtCall>>
  /\ UNCHANGED <<server, xvars, mainvars>>

\* lines 35-36, 44-47: any other failure of the GET
ReqGetError ==
  /\ rpc = "get"
  /\ \E r \in Answers(url) :
       /\ GetRaises(r)
       /\ ~IsRateLimited(r)
       /\ answers' = Append(answers, r)
       /\ ret' = Raised(r)
  /\ printed' = IF ~ignore_error THEN Append(printed, "exception") ELSE printed
  /\ rpc' = "ret"
  /\ UNCHANGED <<response_cache, url, ignore_error, wait_seconds, attempts,
                 slept, prior, firstOk, cacheAtCall>>
  /\ UNCHANGED <<server, xvars, mainvars>>

\* ------------------------------------------------------------------ request() alone
\* the urls the calls of this specification draw from
CallUrls == {OwnedUrl, ReviewsUrl(1), AppDetailsUrl(1)}

NoXRet == [kind |-> "pending", val |-> "", flag |-> FALSE, exc |-> ""]
NoLocals == [appid |-> 0, name |-> <<>>, playtime_minutes |-> 0, last_played_date |-> "",
             review_rating |-> "", metacritic_score |-> "", release_date |-> ""]

InitCommon ==
  /\ response_cache = <<>>
  /\ url = OwnedUrl
  /\ ignore_error = FALSE
  /\ wait_seconds = 0
  /\ attempts = 0
  /\ rpc = "idle"
  /\ ret = NoRet
  /\ answers = <<>>
  /\ slept = <<>>
  /\ printed = <<>>
  /\ prior = NoPrior
  /\ firstOk = <<>>
  /\ cacheAtCall = <<>>
  /\ xfn = ""
  /\ xappid = 0
  /\ xpc = "idle"
  /\ xret = NoXRet
  /\ pc = "start"
  /\ owned_games = <<>>
  /\ gi = 0
  /\ locals = NoLocals
  /\ csvfile = [opened |-> FALSE, rows |-> <<>>]
  /\ logged = <<>>
  /\ escaped = ""

Init ==
  /\ InitCommon
  /\ server = "sample"
  /\ STEAM_ID = "7656"

\* some caller calls request(u, ie) once the previous call has ended
TopCall ==
  /\ rpc \in {"idle", "ret"}
  /\ \E u \in CallUrls, ie \in BOOLEAN : CallRequest(u, ie)
  /\ UNCHANGED <<server, xvars, mainvars>>

Next == TopCall \/ ReqCacheHit \/ ReqCacheMiss \/ ReqGetSuccess \/ ReqGetRateLimited \/ ReqGetError

Spec == Init /\ [][Next]_vars

\* ------------------------------------------------------------------ extractors
\* what an extractor call ends with: a returned string, a returned boolean, or
\* an exception that leaves the extractor
Value(v) == [kind |-> "return", val |-> v, flag |-> FALSE, exc |-> ""]
BoolValue(b) == [kind |-> "return", val |-> "", flag |-> b, exc |-> ""]
Raises(e) == [kind |-> "raise", val |-> "", flag |-> FALSE, exc |-> e]

Extractors == {"get_review_summary", "get_metacritic_score", "get_release_date",
               "is_game_beaten"}

UrlOfExtractor(fn, a) ==
  CASE fn = "get_review_summary" -> ReviewsUrl(a)
    [] fn = "get_metacritic_score" -> AppDetailsUrl(a)
    [] fn = "get_release_date" -> AppDetailsUrl(a)
    [] fn = "is_game_beaten" -> AchievementsUrl(a)

\* lines 50-56: strptime(date_str, "%d %b, %Y") then strftime("%Y-%m-%d"), for
\* the date strings the API serves here
format_date(date_str) ==
  IF date_str = "21 Mar, 2020" THEN "2020-03-21" ELSE "Unknown Release Date"

RECURSIVE SumAchieved(_)
SumAchieved(achievements) ==
  IF achievements = <<>> THEN 0
  ELSE Head(achievements) + SumAchieved(Tail(achievements))

\* line 79: unlocked_achievements >= total_achievements / 2, a true division
AtLeastHalf(unlocked, total) == 2 * unlocked >= total

\* lines 73-80
BeatenOf(data) ==
  IF data.has_playerstats /\ data.has_achievements
  THEN BoolValue(AtLeastHalf(SumAchieved(data.achievements), Len(data.achievements)))
  ELSE BoolValue(FALSE)

\* lines 89-92
ReviewSummaryOf(data) ==
  IF data.has_query_summary THEN Value(data.review_score_desc) ELSE Value("No Reviews")

\* lines 101-104: data[str(appid)]['data'] is a KeyError without 'data'
MetacriticScoreOf(data) ==
  IF ~data.has_appid THEN Value("No Score")
  ELSE IF ~data.has_data THEN Raises("KeyError")
  ELSE IF data.has_metacritic THEN Value(data.score)
  ELSE Value("No Score")

\* lines 113-116
ReleaseDateOf(data) ==
  IF ~data.has_appid THEN Value("Unknown Release Date")
  ELSE IF ~data.has_data THEN Raises("KeyError")
  ELSE IF data.has_release_date THEN Value(format_date(data.date))
  ELSE Value("Unknown Release Date")

\* the try/except around request(url, True) and the response.json() after it:
\* a RequestException gives the sentinel, a returned None has no json()
AfterRequest(sentinel, parsed) ==
  CASE ret.kind = "raise" -> sentinel
    [] ret.kind = "None" -> Raises("AttributeError")
    [] ret.kind = "response" -> parsed

\* an extractor is called: its url is built and request(url, True) is made
CallExtractor(fn, a) ==
  /\ xfn' = fn
  /\ xappid' = a
  /\ xpc' = "wait"
  /\ xret' = NoXRet
  /\ CallRequest(UrlOfExtractor(fn, a), TRUE)

ExtractorEnds(fn, result) ==
  /\ xpc = "wait"
  /\ xfn = fn
  /\ rpc = "ret"
  /\ xret' = result
  /\ xpc' = "ret"
  /\ rpc' = "idle"
  /\ UNCHANGED <<response_cache, url, ignore_error, wait_seconds, attempts,
                 ret, answers, slept, printed, prior, firstOk, cacheAtCall>>
  /\ UNCHANGED <<server, xfn, xappid, mainvars>>

\* lines 83-92
get_review_summary ==
  ExtractorEnds("get_review_summary",
                AfterRequest(Value("Error Fetching Reviews"),
                             ReviewSummaryOf(ret.response.body)))

\* lines 95-104
get_metacritic_score ==
  ExtractorEnds("get_metacritic_score",
                AfterRequest(Value("Error Fetching Metacritic Score"),
                             MetacriticScoreOf(ret.response.body)))

\* lines 107-116
get_release_date ==
  ExtractorEnds("get_release_date",
                AfterRequest(Value("Error Fetching Release Date"),
                             ReleaseDateOf(ret.response.body)))

\* lines 66-80
is_game_beaten ==
  ExtractorEnds("is_game_beaten",
                AfterRequest(BoolValue(FALSE), BeatenOf(ret.response.body)))

\* ------------------------------------------------------------------ the extractors alone
InitExtract ==
  /\ InitCommon
  /\ server = "full"
  /\ STEAM_ID = "7656"

\* some caller calls one of the extractors for game 1 once the previous
\* extractor call has ended
ExtractorCall ==
  /\ xpc \in {"idle", "ret"}
  /\ rpc = "idle"
  /\ \E fn \in Extractors : CallExtractor(fn, 1)
  /\ UNCHANGED <<server, mainvars>>

NextExtract ==
  \/ ExtractorCall
  \/ ReqCacheHit \/ ReqCacheMiss \/ ReqGetSuccess \/ ReqGetRateLimited \/ ReqGetError
  \/ get_review_summary \/ get_metacritic_score \/ get_release_date \/ is_game_beaten

SpecExtract == InitExtract /\ [][NextExtract]_vars

\* ------------------------------------------------------------------ main()
\* line 120: not steam_id
NoSteamId(steam_id) == steam_id = ""

\* line 125: not owned_games
\* (variant: an empty list is not told apart)
NoOwnedGamesNever(games) == FALSE
NoOwnedGames(games) == games = <<>>

\* lines 142-143: datetime.utcfromtimestamp(ts).strftime('%Y-%m-%d'), for the
\* days served here; a day after LastDay is a ValueError
UtcDate(days) == IF days = 1 THEN "1970-01-02" ELSE "1970-01-01"

\* lines 150-158: the row written for the game
Row(l, beaten) ==
  [Name |-> l.name, ReviewRating |-> l.review_rating,
   MetacriticScore |-> l.metacritic_score, PlaytimeInMinutes |-> l.playtime_minutes,
   DateReleased |-> l.release_date, LastPlayed |-> l.last_played_date, Beaten |-> beaten]

RequestIdle ==
  UNCHANGED <<response_cache, url, ignore_error, wait_seconds, attempts, rpc,
              ret, answers, slept, printed, prior, firstOk, cacheAtCall>>

\* the game is done with: the frames of its calls are gone, and with them the
\* history of its last request() call; its locals are dead until reassigned
GameDone ==
  /\ gi' = gi + 1
  /\ pc' = "loop"
  /\ locals' = NoLocals
  /\ xfn' = ""
  /\ xappid' = 0
  /\ xpc' = "idle"
  /\ xret' = NoXRet
  /\ url' = OwnedUrl
  /\ ignore_error' = FALSE
  /\ wait_seconds' = 0
  /\ attempts' = 0
  /\ ret' = NoRet
  /\ answers' = <<>>
  /\ slept' = <<>>
  /\ printed' = <<>>
  /\ prior' = NoPrior
  /\ cacheAtCall' = <<>>
  /\ UNCHANGED <<response_cache, rpc, firstOk>>

\* lines 119-124 and 60-61: main() up to get_owned_games' request(url)
MainStart ==
  /\ pc = "start"
  /\ IF NoSteamId(STEAM_ID)
     THEN /\ pc' = "done"
          /\ RequestIdle
     ELSE /\ pc' = "get_owned_games"
          /\ CallRequest(OwnedUrl, FALSE)
  /\ UNCHANGED <<server, xvars, STEAM_ID, owned_games, gi, locals, csvfile, logged, escaped>>

\* lines 62-63 and 125-134: get_owned_games returns or raises, and main() goes
\* on up to the loop; nothing in main() catches what get_owned_games raises
MainOwnedGames ==
  /\ pc = "get_owned_games"
  /\ rpc = "ret"
  /\ rpc' = "idle"
  /\ CASE ret.kind = "raise" ->
            /\ escaped' = "RequestException"
            /\ pc' = "crashed"
            /\ UNCHANGED <<owned_games, gi, csvfile>>
       [] ret.kind = "None" ->
            /\ escaped' = "AttributeError"
            /\ pc' = "crashed"
            /\ UNCHANGED <<owned_games, gi, csvfile>>
       [] ret.kind = "response" /\ ~ret.response.body.has_games ->
            /\ escaped' = "KeyError"
            /\ pc' = "crashed"
            /\ UNCHANGED <<owned_games, gi, csvfile>>
       [] ret.kind = "response" /\ ret.response.body.has_games ->
            /\ owned_games' = ret.response.body.games
            /\ IF NoOwnedGames(ret.response.body.games)
               THEN /\ pc' = "done"
                    /\ UNCHANGED <<gi, csvfile>>
               ELSE /\ csvfile' = [opened |-> TRUE, rows |-> <<>>]
                    /\ gi' = 1
                    /\ pc' = "loop"
            /\ UNCHANGED escaped
  /\ UNCHANGED <<response_cache, url, ignore_error, wait_seconds, attempts,
                 ret, answers, slept, printed, prior, firstOk, cacheAtCall>>
  /\ UNCHANGED <<server, xvars, STEAM_ID, locals, logged>>

\* line 137, the list is exhausted: the file is closed and main() returns
MainLoopEnd ==
  /\ pc = "loop"
  /\ gi > Len(owned_games)
  /\ pc' = "done"
  /\ RequestIdle
  /\ UNCHANGED <<server, xvars, STEAM_ID, owned_games, gi, locals, csvfile, logged, escaped>>

\* lines 137-145: the next game's fields are read, outside the try, and
\* get_review_summary is called
MainNextGame ==
  /\ pc = "loop"
  /\ gi <= Len(owned_games)
  /\ LET game == owned_games[gi] IN
       IF ~game.has_name
       THEN /\ escaped' = "KeyError"
            /\ pc' = "crashed"
            /\ RequestIdle
            /\ UNCHANGED <<xvars, locals>>
       ELSE IF game.rtime_last_played > LastDay
       THEN /\ escaped' = "ValueError"
            /\ pc' = "crashed"
            /\ RequestIdle
            /\ UNCHANGED <<xvars, locals>>
       ELSE /\ locals' = [NoLocals EXCEPT
                            !.appid = game.appid,
                            !.name = game.name,
                            !.playtime_minutes = game.playtime_forever,
                            !.last_played_date =
                               IF game.rtime_last_played # 0
                               THEN UtcDate(game.rtime_last_played)
                               ELSE "Never Played"]
            /\ CallExtractor("get_review_summary", game.appid)
            /\ pc' = "review_rating"
            /\ UNCHANGED escaped
  /\ UNCHANGED <<server, STEAM_ID, owned_games, gi, csvfile, logged>>

\* an extractor has returned to main()
ExtractorReturned(stage) == pc = stage /\ xpc = "ret" /\ xret.kind = "return"

\* lines 145-146
MainReviewRating ==
  /\ ExtractorReturned("review_rating")
  /\ locals' = [locals EXCEPT !.review_rating = xret.val]
  /\ CallExtractor("get_metacritic_score", locals.appid)
  /\ pc' = "metacritic_score"
  /\ UNCHANGED <<server, STEAM_ID, owned_games, gi, csvfile, logged, escaped>>

\* lines 146-147
MainMetacriticScore ==
  /\ ExtractorReturned("metacritic_score")
  /\ locals' = [locals EXCEPT !.metacritic_score = xret.val]
  /\ CallExtractor("get_release_date", locals.appid)
  /\ pc' = "release_date"
  /\ UNCHANGED <<server, STEAM_ID, owned_games, gi, csvfile, logged, escaped>>

\* lines 147-148
MainReleaseDate ==
  /\ ExtractorReturned("release_date")
  /\ locals' = [locals EXCEPT !.release_date = xret.val]
  /\ CallExtractor("is_game_beaten", locals.appid)
  /\ pc' = "beaten"
  /\ UNCHANGED <<server, STEAM_ID, owned_games, gi, csvfile, logged, escaped>>

\* lines 148-158 and 159-161: the row is written, or writerow raises and the
\* except clause prints the game and goes on
MainWriteRow ==
  /\ ExtractorReturned("beaten")
  /\ \E written \in BOOLEAN :
       IF written
       THEN /\ csvfile' = [csvfile EXCEPT !.rows = Append(@, Row(locals, xret.flag))]
            /\ UNCHANGED logged
       ELSE /\ logged' = Append(logged, gi)
            /\ UNCHANGED csvfile
  /\ GameDone
  /\ UNCHANGED <<server, STEAM_ID, owned_games, escaped>>

\* lines 159-161: an exception left one of the four extractors
MainExcept ==
  /\ pc \in {"review_rating", "metacritic_score", "release_date", "beaten"}
  /\ xpc = "ret"
  /\ xret.kind = "raise"
  /\ logged' = Append(logged, gi)
  /\ GameDone
  /\ UNCHANGED <<server, STEAM_ID, owned_games, csvfile, escaped>>

InitMain ==
  /\ InitCommon
  /\ server = "library"
  /\ STEAM_ID \in {"", "7656"}

NextMain ==
  \/ MainStart \/ MainOwnedGames \/ MainLoopEnd \/ MainNextGame
  \/ MainReviewRating \/ MainMetacriticScore \/ MainReleaseDate \/ MainWriteRow \/ MainExcept
  \/ ReqCacheHit \/ ReqCacheMiss \/ ReqGetSuccess \/ ReqGetRateLimited \/ ReqGetError
  \/ get_review_summary \/ get_metacritic_score \/ get_release_date \/ is_game_beaten

SpecMain == InitMain /\ [][NextMain]_vars

\* ------------------------------------------------------------------ request(): properties
Got429(r) == r.has_response /\ r.status_code = 429
Got2xx(r) == r.has_response /\ r.status_code \in 200..299
GotFailure(r) == ~r.has_response \/ (r.status_code \in 400..599 /\ r.status_code # 429)

AllGot429 == \A i \in 1..Len(answers) : Got429(answers[i])

IsPrefix(s, t) == Len(s) <= Len(t) /\ \A i \in 1..Len(s) : s[i] = t[i]

BackoffSchedule == <<1, 2, 4, 8, 16, 32, 60, 60, 60, 60>>

\* C1: once request() has returned a successful response for a url, every
\* later call for that url issues no GET and no sleep and returns that same
\* response, whatever the server would answer now.
C1_CacheProperty ==
  (rpc # "idle" /\ prior.known) =>
     /\ answers = <<>>
     /\ slept = <<>>
     /\ rpc \in {"entry", "ret"}
     /\ rpc = "ret" => ret = Returned(prior.response)

C1_Witness ==
  /\ rpc = "ret"
  /\ prior.known
  /\ ret = Returned(prior.response)
  /\ url = ReviewsUrl(1)
  /\ ret.response.body = ReviewsBody(FALSE, "")

\* C2: while every GET of a call answers 429, the waits are 1, 2, 4, 8, 16,
\* 32, 60, 60, 60, 60 in that order, one before each retry, and the call then
\* gives up (returns None) without another retry.
C2_BackoffSchedule ==
  (answers # <<>> /\ AllGot429) =>
     /\ IsPrefix(slept, BackoffSchedule)
     /\ Len(slept) \in {Len(answers) - 1, Len(answers)}
     /\ rpc = "ret" => /\ ret = ReturnedNone
                       /\ slept = BackoffSchedule

C2_Witness ==
  /\ rpc = "ret"
  /\ AllGot429
  /\ slept = BackoffSchedule
  /\ ret = ReturnedNone

\* C6: a GET that fails with a network error or a non-429 HTTP error is the
\* last GET of the call: no sleep or GET follows it and the call raises that
\* error, with ignore_error TRUE or FALSE; ignore_error decides only whether
\* the exception is printed.
C6_NoRetryOnError ==
  \A i \in 1..Len(answers) :
     GotFailure(answers[i]) =>
        /\ i = Len(answers)
        /\ Len(slept) = i - 1
        /\ rpc = "ret"
        /\ ret = Raised(answers[i])
        /\ (\E j \in 1..Len(printed) : printed[j] = "exception") <=> ~ignore_error

C6_Witness ==
  /\ rpc = "ret"
  /\ ignore_error
  /\ Len(answers) = 3
  /\ ret = Raised(Response(url, 500, NoBody))

\* C8: response_cache maps a url only to the successful response of a GET of
\* that url; a failed GET and the give-up result insert nothing; an entry is
\* never replaced or removed.
C8_CacheInvariant ==
  [][/\ \A u \in DOMAIN response_cache :
          u \in DOMAIN response_cache' /\ response_cache'[u] = response_cache[u]
     /\ \A u \in DOMAIN response_cache' :
          /\ Got2xx(response_cache'[u])
          /\ response_cache'[u].url = u
          /\ u \notin DOMAIN response_cache =>
               u = url /\ answers' = Append(answers, response_cache'[u])]_vars

C8_Witness ==
  /\ rpc = "ret"
  /\ ret.kind \in {"raise", "None"}
  /\ answers # <<>>
  /\ DOMAIN response_cache = {OwnedUrl, ReviewsUrl(1)}
  /\ url = AppDetailsUrl(1)

\* C10: a call on an uncached url makes at most MAX_ATTEMPTS + 1 GETs and at
\* most MAX_ATTEMPTS sleeps, none before the first GET; every sleep lies in
\* [MIN_WAIT_SECONDS, MAX_WAIT_SECONDS] and is not shorter than the one before;
\* after MAX_ATTEMPTS + 1 answers of 429 the call returns None and the cache is
\* as it was, so the url is still uncached for a later call.
C10_BoundedRetry ==
  /\ Len(answers) <= MAX_ATTEMPTS + 1
  /\ Len(slept) <= MAX_ATTEMPTS
  /\ Len(slept) <= Len(answers)
  /\ rpc = "entry" => wait_seconds > 0 \/ answers = <<>>
  /\ \A i \in 1..Len(slept) :
        /\ slept[i] >= MIN_WAIT_SECONDS
        /\ slept[i] <= MAX_WAIT_SECONDS
        /\ i > 1 => slept[i] >= slept[i - 1]
  /\ (rpc = "ret" /\ AllGot429 /\ Len(answers) = MAX_ATTEMPTS + 1) =>
        /\ ret = ReturnedNone
        /\ response_cache = cacheAtCall
        /\ url \notin DOMAIN response_cache
  /\ (rpc = "ret" /\ ret = ReturnedNone) => Len(answers) = MAX_ATTEMPTS + 1 /\ AllGot429
  /\ (rpc # "ret" /\ rpc # "idle" /\ answers # <<>>) => AllGot429

C10_Witness ==
  /\ rpc = "ret"
  /\ ret = ReturnedNone
  /\ Len(answers) = MAX_ATTEMPTS + 1
  /\ Len(slept) = MAX_ATTEMPTS
  /\ DOMAIN response_cache = {ReviewsUrl(1)}
  /\ url = OwnedUrl

\* ------------------------------------------------------------------ extractors: properties
SentinelOf(fn) ==
  CASE fn = "get_review_summary" -> Value("Error Fetching Reviews")
    [] fn = "get_metacritic_score" -> Value("Error Fetching Metacritic Score")
    [] fn = "get_release_date" -> Value("Error Fetching Release Date")
    [] fn = "is_game_beaten" -> BoolValue(FALSE)

CountUnlocked(achievements) ==
  Cardinality({i \in 1..Len(achievements) : achievements[i] = 1})

\* C4: whenever the request() call of an extractor delivers no response (it
\* raised a network or HTTP error, or gave up after the 429 retries and
\* returned None), the extractor returns its sentinel and raises nothing.
C4_ExtractorTolerance ==
  (xpc = "ret" /\ ret.kind \in {"raise", "None"}) => xret = SentinelOf(xfn)

\* C7: is_game_beaten returns true iff the achievement list has T > 0 entries
\* of which U are unlocked with 2 * U >= T; it returns false when the
\* achievement data is missing or empty, and when the fetch fails.
C7_BeatenHeuristic ==
  (xpc = "ret" /\ xfn = "is_game_beaten") =>
     IF ret.kind = "response"
     THEN LET data == ret.response.body
              T == Len(data.achievements)
              U == CountUnlocked(data.achievements)
          IN  xret = BoolValue(/\ data.has_playerstats
                               /\ data.has_achievements
                               /\ T > 0
                               /\ 2 * U >= T)
     ELSE xret = BoolValue(FALSE)

\* ------------------------------------------------------------------ main(): properties
Logged(k) == \E j \in 1..Len(logged) : logged[j] = k
HasRow(k) == \E j \in 1..Len(csvfile.rows) : csvfile.rows[j].Name = owned_games[k].name

\* C3: an exception raised at any step of one game's processing is caught and
\* logged, the game gets no row and the later games are still processed: once
\* the loop runs no exception leaves main(), and when main() ends every game
\* is either logged or has its row, never both.
C3_PerGameIsolation ==
  csvfile.opened =>
     /\ escaped = ""
     /\ pc # "crashed"
     /\ pc = "done" =>
          /\ Len(csvfile.rows) + Len(logged) = Len(owned_games)
          /\ \A k \in 1..Len(owned_games) : Logged(k) # HasRow(k)

\* C5: when the owned-games call fails entirely (request() raised, or gave up
\* and returned None), main() writes no output file and ends normally: no
\* exception leaves it.
C5_OwnedGamesFailure ==
  (pc \notin {"start", "get_owned_games"} /\ gi = 0 /\ url = OwnedUrl
     /\ ret.kind \in {"raise", "None"}) =>
        /\ ~csvfile.opened
        /\ escaped = ""
        /\ pc = "done"

OwnedGamesMissingOrEmpty ==
  /\ OwnedUrl \in DOMAIN response_cache
  /\ \/ ~response_cache[OwnedUrl].body.has_games
     \/ response_cache[OwnedUrl].body.games = <<>>

\* C9: with STEAM_ID missing main() makes no network call at all and opens no
\* output file; with the games list of the owned-games response missing or
\* empty main() stops before the output file is opened and before any call
\* for a game is made.
C9_FatalPreconditions ==
  /\ STEAM_ID = "" =>
       /\ pc \in {"start", "done"}
       /\ rpc = "idle"
       /\ answers = <<>>
       /\ response_cache = <<>>
       /\ ~csvfile.opened
  /\ OwnedGamesMissingOrEmpty =>
       /\ pc \in {"get_owned_games", "done", "crashed"}
       /\ ~csvfile.opened
       /\ url = OwnedUrl
       /\ xpc = "idle"
       /\ gi = 0
       /\ DOMAIN response_cache = {OwnedUrl}

C9_Witness ==
  /\ pc = "done"
  /\ OwnedUrl \in DOMAIN response_cache
  /\ response_cache[OwnedUrl].body = OwnedBody(TRUE, <<>>)
  /\ ~csvfile.opened

====
